---- MODULE Spec2Model ----
(***************************************************************************)
(* A model of the ray tracer's core: the parallel row renderer (render),   *)
(* the recursive radiance estimator (trace), the sphere intersection test  *)
(* (Sphere::intersects) and nearest-hit resolution (first_intersection).   *)
(*                                                                         *)
(* Floating-point values are modelled as exact rationals over integers:    *)
(* a scalar is a numerator over a stated positive denominator, and sqrt is *)
(* a fixed-point square root rounded down to 1/Scale.                      *)
(***************************************************************************)
EXTENDS Integers, Sequences, FiniteSets, TLC

\* ------------------------------------------------------------------------
\* Bounds of the model
\* ------------------------------------------------------------------------
MaxRows == 3
MaxCols == 2
MaxThreads == 2
MaxSamples == 1
JitterDen == 3
MaxPrims == 2
MaxDist == 1
SmallBudget == 2
MaxCoord == 3
MaxRadius == 1

\* ------------------------------------------------------------------------
\* Program constants
\* ------------------------------------------------------------------------
\* trace(&ray, world, 50)
TraceDepth == 50
\* denominator of the fixed-point scalars; 1 / Scale is the 0.01 of intersects
Scale == 100

VARIABLES
    \* ---- render (src/src/ray.rs) ----
    rows,            \* argument rows
    cols,            \* argument cols
    samples,         \* samples_per_pixel as usize
    numThreads,      \* current_num_threads()
    image,           \* per cell of the buffer: the set of <<row, write number>> writes made to it
    pending,         \* (row, chunk) items of the parallel iterator not yet handed to a worker
    finished,        \* rows whose closure has returned
    task,            \* per worker thread: the row closure it is running, or Idle
    completed_rows,  \* the AtomicUsize
    progress,        \* the counter value of the last progress line printed
    rngUsers,        \* per thread-local generator: the <<thread, row>> pairs that drew from it
                     \* (read and advanced its state)
    pixel,           \* SpecSample: the pixel being sampled and the number of samples taken
    primeArgs,       \* the arguments of the last camera.prime_ray call
    \* ---- trace (src/src/ray.rs) ----
    trWorld,         \* world: the surface kind of each primitive, in order
    trDepth0,        \* depth argument of the outermost call
    trRay0,          \* direction of the ray of the outermost call
    trRay,           \* direction of the ray of the innermost active call
    trStack,         \* the active calls, outermost first
    trPc,            \* "call": the innermost call is at its entry; "return": it has
                     \* produced trRet; "done", "panic": the outermost call has ended
    trRet,           \* the RGB returned by the call that returned last
    \* ---- Sphere::intersects, first_intersection (src/src/geometry.rs) ----
    gRay,            \* the ray: origin and direction
    gWorld,          \* the spheres, in order: origin (centre) and radius
    gIntersections,  \* the per-primitive results of intersects, in order
    gResult,         \* the result of first_intersection
    gPc              \* "start", "tested" (intersects done), "resolved"

renderVars == <<rows, cols, samples, numThreads, image, pending, finished, task,
                completed_rows, progress, rngUsers, pixel, primeArgs>>

traceVars == <<trWorld, trDepth0, trRay0, trRay, trStack, trPc, trRet>>

geomVars == <<gRay, gWorld, gIntersections, gResult, gPc>>

vars == <<renderVars, traceVars, geomVars>>

\* rgb(0.0, 0.0, 0.0); an RGB is three numerators over one denominator
Black == [r |-> 0, g |-> 0, b |-> 0, den |-> 1]

\* values of the variables a specification does not use
TraceUnused ==
    /\ trWorld = << >>
    /\ trDepth0 = 0
    /\ trRay0 = <<0, 0, 0>>
    /\ trRay = <<0, 0, 0>>
    /\ trStack = << >>
    /\ trPc = "unused"
    /\ trRet = Black

GeomUnused ==
    /\ gRay = [origin |-> <<0, 0, 0>>, direction |-> <<0, 0, 0>>]
    /\ gWorld = << >>
    /\ gIntersections = << >>
    /\ gResult = [status |-> "unused"]
    /\ gPc = "unused"

RenderUnused ==
    /\ rows = 0
    /\ cols = 0
    /\ samples = 0
    /\ numThreads = 0
    /\ image = << >>
    /\ pending = {}
    /\ finished = {}
    /\ task = << >>
    /\ completed_rows = 0
    /\ progress = 0
    /\ rngUsers = << >>
    /\ pixel = [row |-> 0, col |-> 0, sample |-> 0]
    /\ primeArgs = [row_num |-> 0, row_den |-> 1, col_num |-> 0, col_den |-> 1, calls |-> 0]

Idle == [pc |-> "idle"]

Threads == 1 .. numThreads

\* rand::thread_rng(): the generator of the calling thread
ThreadRngShared(w) == 1
ThreadRng(w) == w

\* slice::par_chunks_mut(size) on a slice of length len, enumerated:
\* item i is the sub-slice starting at i*size, all of length size but the last
NumChunks(len, size) == (len + size - 1) \div size
ChunkStartOverlap(i, size) == i * (size - 1)
ChunkStart(i, size) == i * size
ChunkLen(i, len, size) ==
    IF ChunkStart(i, size) + size <= len THEN size ELSE len - ChunkStart(i, size)

\* vec![vec![0.0; 3]; rows * cols]
ImageLen == rows * cols

\* position in the body of `for col in 0..cols` at the top of an iteration
PcAtCol(col) == IF col = cols - 1 THEN "load" ELSE "sample"

\* (index as f64 + 0.5 + rand) / (extent as f64), rand = k / JitterDen,
\* as the fraction num / den
FracNum(index, k) == 2 * JitterDen * index + JitterDen + 2 * k
FracDen(extent) == 2 * JitterDen * extent

NoArgs == [row_num |-> 0, row_den |-> 1, col_num |-> 0, col_den |-> 1, calls |-> 0]
NoPixel == [row |-> 0, col |-> 0, sample |-> 0]

InitRender ==
    /\ rows \in 1 .. MaxRows
    /\ cols \in 1 .. MaxCols
    /\ samples \in 1 .. MaxSamples
    /\ numThreads \in 1 .. MaxThreads
    /\ image = [i \in 0 .. (rows * cols - 1) |-> {}]
    /\ pending = 0 .. (NumChunks(rows * cols, cols) - 1)
    /\ finished = {}
    /\ task = [w \in 1 .. numThreads |-> Idle]
    /\ completed_rows = 0
    /\ progress = 0
    /\ rngUsers = [g \in 1 .. numThreads |-> {}]
    /\ pixel = NoPixel
    /\ primeArgs = NoArgs
    /\ TraceUnused
    /\ GeomUnused

\* a worker of the pool takes the next (row, chunk) item and enters the closure:
\* let mut rng = rand::thread_rng(); for col in 0..cols { ...
StartRow(w) ==
    /\ task[w].pc = "idle"
    /\ \E row \in pending :
        /\ pending' = pending \ {row}
        /\ task' = [task EXCEPT ![w] =
                      [pc |-> PcAtCol(0), row |-> row, col |-> 0,
                       tmp |-> 0, rng |-> ThreadRng(w),
                       chunk |-> [start |-> ChunkStart(row, cols),
                                  len |-> ChunkLen(row, ImageLen, cols)]]]
    /\ UNCHANGED <<traceVars, geomVars>>
    /\ UNCHANGED <<rows, cols, samples, numThreads, image, finished,
                   completed_rows, progress, rngUsers, pixel, primeArgs>>

\* completed_rows.load(Ordering::Relaxed)
LoadCounter(w) ==
    /\ task[w].pc = "load"
    /\ task' = [task EXCEPT ![w].pc = "store", ![w].tmp = completed_rows]
    /\ UNCHANGED <<traceVars, geomVars>>
    /\ UNCHANGED <<rows, cols, samples, numThreads, image, pending, finished,
                   completed_rows, progress, rngUsers, pixel, primeArgs>>

\* completed_rows.store(<loaded> + 1, Ordering::Relaxed)
StoreCounter(w) ==
    /\ task[w].pc = "store"
    /\ completed_rows' = task[w].tmp + 1
    /\ task' = [task EXCEPT ![w].pc = "print"]
    /\ UNCHANGED <<traceVars, geomVars>>
    /\ UNCHANGED <<rows, cols, samples, numThreads, image, pending, finished,
                   progress, rngUsers, pixel, primeArgs>>

\* eprintln!("[info] {:.2}%", completed_rows.load(Relaxed) as f64 / rows as f64 * 100.0)
PrintProgress(w) ==
    /\ task[w].pc = "print"
    /\ progress' = completed_rows
    /\ task' = [task EXCEPT ![w].pc = "sample"]
    /\ UNCHANGED <<traceVars, geomVars>>
    /\ UNCHANGED <<rows, cols, samples, numThreads, image, pending, finished,
                   completed_rows, rngUsers, pixel, primeArgs>>

\* one iteration of `for col in 0..cols` after the progress report: the loop
\* `for sample in 0..samples_per_pixel as usize` (two draws from the closure's
\* rng per sample, and trace, whose scattering through Vec3D::random and refract
\* draws from rand::thread_rng() of the running thread), the write
\* `let mut pixel = &mut chunk[col]; pixel[0] = r; ...`, and the end of the
\* iteration: the next column, or the return of the closure.  The values of
\* the samples are the subject of SpecSample.
Pixel(w) ==
    /\ task[w].pc = "sample"
    /\ LET t == task[w]
           cell == t.chunk.start + t.col
           jittered == [rngUsers EXCEPT ![t.rng] = @ \cup {<<w, t.row>>}]
       IN  /\ t.col < t.chunk.len
           /\ \E scatters \in BOOLEAN :
                 rngUsers' = IF samples = 0 THEN rngUsers
                             ELSE IF scatters
                                    THEN [jittered EXCEPT ![ThreadRng(w)] = @ \cup {<<w, t.row>>}]
                                    ELSE jittered
           /\ image' = [image EXCEPT ![cell] = @ \cup {<<t.row, Cardinality(@) + 1>>}]
           /\ IF t.col + 1 < cols
                THEN /\ task' = [task EXCEPT ![w].col = t.col + 1,
                                             ![w].pc = PcAtCol(t.col + 1)]
                     /\ finished' = finished
                ELSE /\ task' = [task EXCEPT ![w] = Idle]
                     /\ finished' = finished \cup {t.row}
    /\ UNCHANGED <<traceVars, geomVars>>
    /\ UNCHANGED <<rows, cols, samples, numThreads, pending,
                   completed_rows, progress, pixel, primeArgs>>

NextRender ==
    \/ \E w \in Threads : StartRow(w)
    \/ \E w \in Threads : LoadCounter(w)
    \/ \E w \in Threads : StoreCounter(w)
    \/ \E w \in Threads : PrintProgress(w)
    \/ \E w \in Threads : Pixel(w)

Spec == InitRender /\ [][NextRender]_vars

\* for_each has returned: every item was handed out and every closure returned
RenderDone == pending = {} /\ \A w \in Threads : task[w].pc = "idle"

\* ------------------------------------------------------------------------
\* The sampling loop of one pixel (src/src/ray.rs, render)
\* ------------------------------------------------------------------------
\* the closure of row `row` is at column `col`, before its first sample
InitSample ==
    /\ rows \in 1 .. MaxRows
    /\ cols \in 1 .. MaxCols
    /\ samples \in 1 .. MaxSamples
    /\ pixel \in [row : 0 .. (rows - 1), col : 0 .. (cols - 1), sample : {0}]
    /\ primeArgs = NoArgs
    /\ numThreads = 0
    /\ image = << >>
    /\ pending = {}
    /\ finished = {}
    /\ task = << >>
    /\ completed_rows = 0
    /\ progress = 0
    /\ rngUsers = << >>
    /\ TraceUnused
    /\ GeomUnused

\* one iteration of `for sample in 0..samples_per_pixel as usize` up to the
\* call of prime_ray: row_rand and col_rand are rng.gen::<f64>() in [0, 1),
\* here k / JitterDen
SamplePrimeRay ==
    /\ pixel.sample < samples
    /\ \E row_rand \in 0 .. (JitterDen - 1), col_rand \in 0 .. (JitterDen - 1) :
          primeArgs' = [row_num |-> FracNum(pixel.row, row_rand),
                        row_den |-> FracDen(rows),
                        col_num |-> FracNum(pixel.col, col_rand),
                        col_den |-> FracDen(cols),
                        calls |-> primeArgs.calls + 1]
    /\ pixel' = [pixel EXCEPT !.sample = @ + 1]
    /\ UNCHANGED <<traceVars, geomVars>>
    /\ UNCHANGED <<rows, cols, samples, numThreads, image, pending, finished, task,
                   completed_rows, progress, rngUsers>>

NextSample == SamplePrimeRay

SpecSample == InitSample /\ [][NextSample]_vars

\* ------------------------------------------------------------------------
\* Scalars and vectors (src/src/linalg.rs)
\* ------------------------------------------------------------------------
\* an f64 is a fraction [num, den] with den > 0; den = 0 is an infinity
Less(x, y) == x.num * y.den < y.num * x.den

\* std::f64::INFINITY
INFINITY == [num |-> 1, den |-> 0]

\* f64::sqrt on a non-negative integer, rounded down
RECURSIVE SqrtSearch(_, _, _)
SqrtSearch(n, lo, hi) ==
    IF lo >= hi THEN lo
    ELSE LET mid == (lo + hi + 1) \div 2
         IN  IF mid * mid <= n THEN SqrtSearch(n, mid, hi)
                               ELSE SqrtSearch(n, lo, mid - 1)
ISqrt(n) == SqrtSearch(n, 0, IF n < 46340 THEN n ELSE 46340)

\* operators of Vec3D on integer triples
VAdd(a, b) == <<a[1] + b[1], a[2] + b[2], a[3] + b[3]>>
VSub(a, b) == <<a[1] - b[1], a[2] - b[2], a[3] - b[3]>>
VScale(k, a) == <<k * a[1], k * a[2], k * a[3]>>
VNeg(a) == <<0 - a[1], 0 - a[2], 0 - a[3]>>
dot(a, b) == a[1] * b[1] + a[2] * b[2] + a[3] * b[3]
length_squared(a) == a[1] * a[1] + a[2] * a[2] + a[3] * a[3]

\* ------------------------------------------------------------------------
\* Nearest-hit resolution (src/src/geometry.rs)
\* ------------------------------------------------------------------------
None == [some |-> FALSE]

\* the loop `for i in 0..num_objects` of first_intersection, from index i on
\* (sequences are 1-based: index i here is i - 1 in the source)
RECURSIVE FirstLoop(_, _, _, _, _, _, _)
FirstLoop(i, num_objects, intersections, intersectables, closest_distance, closest_intersectable, closest_intersection) ==
    IF i > num_objects
      THEN [closest_distance |-> closest_distance,
            closest_intersectable |-> closest_intersectable,
            closest_intersection |-> closest_intersection]
      ELSE IF intersections[i].some /\ Less(intersections[i].distance, closest_distance)
             THEN FirstLoop(i + 1, num_objects, intersections, intersectables,
                            intersections[i].distance, intersectables[i], intersections[i])
             ELSE FirstLoop(i + 1, num_objects, intersections, intersectables,
                            closest_distance, closest_intersectable, closest_intersection)

\* first_intersection(intersections, intersectables); "panic" is the
\* index-out-of-bounds panic of intersectables[0], intersections[0], intersections[i]
first_intersection(intersections, intersectables) ==
    IF Len(intersectables) = 0 \/ Len(intersections) < Len(intersectables)
      THEN [status |-> "panic"]
      ELSE LET end == FirstLoop(1, Len(intersectables), intersections, intersectables,
                                INFINITY, intersectables[1], intersections[1])
           IN  IF end.closest_distance = INFINITY
                 THEN [status |-> "none"]
                 ELSE IF ~end.closest_intersection.some
                        THEN [status |-> "none"]
                        ELSE [status |-> "some",
                              intersection |-> end.closest_intersection,
                              intersectable |-> end.closest_intersectable]

\* find_intersections(ray, world): the per-primitive results and their
\* nearest-hit resolution over references to the primitives of the world
find_intersections(intersections, world) ==
    first_intersection(intersections, [i \in 1 .. Len(world) |-> i])

\* ------------------------------------------------------------------------
\* trace (src/src/ray.rs)
\* ------------------------------------------------------------------------
Surfaces == {"Diffuse", "Reflective", "FuzzyReflective", "Refractive"}

\* directions of the primary and bounced rays: straight up, horizontal, diagonal
RayDirs == {<<0, 1, 0>>, <<1, 0, 0>>, <<1, -1, 0>>}

\* what intersects may return for one primitive
HitResults ==
    {None} \cup {[some |-> TRUE, distance |-> [num |-> d, den |-> 1]] : d \in 1 .. MaxDist}

\* the None arm of trace: the background gradient of the ray,
\*   height = 0.5 * (ray.direction.l2_normalize().1 + 1.0)
\*   rgb((1.0 - height) + height * 0.5, (1.0 - height) + height * 0.7, 1.0)
Background(direction) ==
    LET norm == ISqrt(length_squared(direction) * Scale * Scale)
        height == [num |-> direction[2] * Scale + norm, den |-> 2 * norm]
    IN  [r |-> 5 * (2 * (height.den - height.num) + height.num),
         g |-> 10 * (height.den - height.num) + 7 * height.num,
         b |-> 10 * height.den,
         den |-> 10 * height.den]

\* vec_to_rgb(material_color * traced_color): black stays black, any other
\* colour is attenuated by the albedo of the material (its value is not modelled)
Attenuated == [r |-> 0, g |-> 0, b |-> 0, den |-> 0]
Attenuate(traced_color) == IF traced_color = Black THEN Black ELSE Attenuated

\* if depth <= 0
DepthExhausted(depth) == depth <= 0

\* the depth argument of the recursive calls: depth - 1
NextDepthSame(depth) == depth
NextDepth(depth) == depth - 1

Frame(depth) == [depth |-> depth, calls |-> 0, tested |-> FALSE]

Top == trStack[Len(trStack)]

InitTrace ==
    /\ \E n \in 0 .. MaxPrims : trWorld \in [1 .. n -> Surfaces]
    /\ trDepth0 \in (0 .. SmallBudget) \cup {TraceDepth}
    /\ trRay0 \in RayDirs
    /\ trRay = trRay0
    /\ trStack = <<Frame(trDepth0)>>
    /\ trPc = "call"
    /\ trRet = Black
    /\ RenderUnused
    /\ GeomUnused

\* if depth <= 0 { return rgb(0.0, 0.0, 0.0); }
TraceExhausted ==
    /\ trPc = "call"
    /\ DepthExhausted(Top.depth)
    /\ trRet' = Black
    /\ trPc' = "return"
    /\ UNCHANGED <<trWorld, trDepth0, trRay0, trRay, trStack>>
    /\ UNCHANGED <<renderVars, geomVars>>

\* find_intersections panics
TracePanic ==
    /\ trPc = "call"
    /\ ~DepthExhausted(Top.depth)
    /\ \E ins \in [1 .. Len(trWorld) -> HitResults] :
          find_intersections(ins, trWorld).status = "panic"
    /\ trPc' = "panic"
    /\ UNCHANGED <<trWorld, trDepth0, trRay0, trRay, trStack, trRet>>
    /\ UNCHANGED <<renderVars, geomVars>>

\* None => the background gradient
TraceMiss ==
    /\ trPc = "call"
    /\ ~DepthExhausted(Top.depth)
    /\ \E ins \in [1 .. Len(trWorld) -> HitResults] :
          find_intersections(ins, trWorld).status = "none"
    /\ trRet' = Background(trRay)
    /\ trStack' = [trStack EXCEPT ![Len(trStack)].tested = TRUE]
    /\ trPc' = "return"
    /\ UNCHANGED <<trWorld, trDepth0, trRay0, trRay>>
    /\ UNCHANGED <<renderVars, geomVars>>

\* Some(..) and the surface bounces the ray: trace(bounced, world, depth - 1).
\* A FuzzyReflective surface recurses only if the fuzzed reflection leaves the
\* surface (dot(&reflected.direction, &intersection.local_normal) > 0.0).
TraceBounce ==
    /\ trPc = "call"
    /\ ~DepthExhausted(Top.depth)
    /\ \E ins \in [1 .. Len(trWorld) -> HitResults] :
          LET result == find_intersections(ins, trWorld)
          IN  /\ result.status = "some"
              /\ trWorld[result.intersectable] \in Surfaces
              /\ \E bounced \in RayDirs : trRay' = bounced
              /\ trStack' = Append([trStack EXCEPT ![Len(trStack)].tested = TRUE,
                                                   ![Len(trStack)].calls = @ + 1],
                                   Frame(NextDepth(Top.depth)))
    /\ UNCHANGED <<trWorld, trDepth0, trRay0, trPc, trRet>>
    /\ UNCHANGED <<renderVars, geomVars>>

\* Some(..), FuzzyReflective, and the fuzzed reflection enters the surface:
\* traced_color stays Vec3D(0.0, 0.0, 0.0), no recursive call
TraceAbsorb ==
    /\ trPc = "call"
    /\ ~DepthExhausted(Top.depth)
    /\ \E ins \in [1 .. Len(trWorld) -> HitResults] :
          LET result == find_intersections(ins, trWorld)
          IN  /\ result.status = "some"
              /\ trWorld[result.intersectable] = "FuzzyReflective"
    /\ trRet' = Attenuate(Black)
    /\ trStack' = [trStack EXCEPT ![Len(trStack)].tested = TRUE]
    /\ trPc' = "return"
    /\ UNCHANGED <<trWorld, trDepth0, trRay0, trRay>>
    /\ UNCHANGED <<renderVars, geomVars>>

\* the innermost call returns trRet; its caller, if any, multiplies it by the
\* colour of its material and returns in turn
TraceReturn ==
    /\ trPc = "return"
    /\ trStack' = SubSeq(trStack, 1, Len(trStack) - 1)
    /\ IF Len(trStack) = 1
         THEN /\ trPc' = "done"
              /\ trRet' = trRet
         ELSE /\ trPc' = "return"
              /\ trRet' = Attenuate(trRet)
    /\ UNCHANGED <<trWorld, trDepth0, trRay0, trRay>>
    /\ UNCHANGED <<renderVars, geomVars>>

NextTrace ==
    \/ TraceExhausted
    \/ TracePanic
    \/ TraceMiss
    \/ TraceBounce
    \/ TraceAbsorb
    \/ TraceReturn

SpecTrace == InitTrace /\ [][NextTrace]_vars

\* ------------------------------------------------------------------------
\* Sphere::intersects (src/src/geometry.rs)
\* ------------------------------------------------------------------------
\* the 0.01 below which a root is rejected
EPS == [num |-> 1, den |-> Scale]

\* let a, h, c, discriminant
QuadA(sphere, ray) == dot(ray.direction, ray.direction)
QuadH(sphere, ray) == dot(VSub(ray.origin, sphere.origin), ray.direction)
QuadC(sphere, ray) ==
    dot(VSub(ray.origin, sphere.origin), VSub(ray.origin, sphere.origin))
        - sphere.radius * sphere.radius
Discriminant(sphere, ray) ==
    QuadH(sphere, ray) * QuadH(sphere, ray) - QuadA(sphere, ray) * QuadC(sphere, ray)

\* discriminant.sqrt(), in units of 1 / Scale
DiscriminantSqrt(sphere, ray) == ISqrt(Discriminant(sphere, ray) * Scale * Scale)

\* t0 = (-h - discriminant_sqrt) / a, t1 = (-h + discriminant_sqrt) / a
Root0(sphere, ray) ==
    [num |-> 0 - QuadH(sphere, ray) * Scale - DiscriminantSqrt(sphere, ray),
     den |-> QuadA(sphere, ray) * Scale]
Root1(sphere, ray) ==
    [num |-> 0 - QuadH(sphere, ray) * Scale + DiscriminantSqrt(sphere, ray),
     den |-> QuadA(sphere, ray) * Scale]

\* let t = if t0 >= 0.01 { t0 } else { t1 }
ChooseRootFar(t0, t1) == t1
ChooseRoot(t0, t1) == IF ~Less(t0, EPS) THEN t0 ELSE t1

\* Ray::at(t): a point is integer numerators over one denominator
At(ray, t) ==
    [num |-> VAdd(VScale(t.den, ray.origin), VScale(t.num, ray.direction)),
     den |-> t.den]

\* Sphere::surface_normal(point) = (point - self.origin).l2_normalize()
SurfaceNormal(sphere, point) ==
    LET v == VSub(point.num, VScale(point.den, sphere.origin))
    IN  [num |-> v, den |-> ISqrt(length_squared(v))]

\* if dot(&ray.direction, &surface_normal) > 0.0 { inside = true; }
IsInsideFlipped(ray, surface_normal) == dot(ray.direction, surface_normal.num) < 0
IsInside(ray, surface_normal) ==
    surface_normal.den > 0 /\ dot(ray.direction, surface_normal.num) > 0

\* let local_normal = if inside { -surface_normal } else { surface_normal }
LocalNormal(inside, surface_normal) ==
    IF inside THEN [num |-> VNeg(surface_normal.num), den |-> surface_normal.den]
              ELSE surface_normal

\* (point - ray.origin).length()
Distance(ray, point) ==
    [num |-> ISqrt(length_squared(VSub(point.num, VScale(point.den, ray.origin)))),
     den |-> point.den]

\* Sphere::intersects(ray)
Intersects(sphere, ray) ==
    IF Discriminant(sphere, ray) < 0
      THEN None
      ELSE LET t0 == Root0(sphere, ray)
               t1 == Root1(sphere, ray)
           IN  IF Less(t0, EPS) /\ Less(t1, EPS)
                 THEN None
                 ELSE LET point == At(ray, ChooseRoot(t0, t1))
                          surface_normal == SurfaceNormal(sphere, point)
                          inside == IsInside(ray, surface_normal)
                      IN  [some |-> TRUE,
                           point |-> point,
                           distance |-> Distance(ray, point),
                           local_normal |-> LocalNormal(inside, surface_normal),
                           inside |-> inside]

Origins == {<<x, 0, z>> : x \in 0 .. 1, z \in (0 - MaxCoord) .. MaxCoord}
Directions == ((-1 .. 1) \X (-1 .. 1) \X (-1 .. 1)) \ {<<0, 0, 0>>}
Spheres == [origin : {<<0, 0, 0>>, <<0, 0, 2>>}, radius : 1 .. MaxRadius]

InitGeom ==
    /\ gRay \in [origin : Origins, direction : Directions]
    /\ \E n \in 0 .. MaxPrims : gWorld \in [1 .. n -> Spheres]
    /\ gIntersections = << >>
    /\ gResult = [status |-> "pending"]
    /\ gPc = "start"
    /\ RenderUnused
    /\ TraceUnused

\* every primitive of the world is tested against the ray
TestPrimitives ==
    /\ gPc = "start"
    /\ gIntersections' = [i \in 1 .. Len(gWorld) |-> Intersects(gWorld[i], gRay)]
    /\ gPc' = "tested"
    /\ UNCHANGED <<gRay, gWorld, gResult>>
    /\ UNCHANGED <<renderVars, traceVars>>

\* the nearest of the results is resolved
ResolveNearest ==
    /\ gPc = "tested"
    /\ gResult' = find_intersections(gIntersections, gWorld)
    /\ gPc' = "resolved"
    /\ UNCHANGED <<gRay, gWorld, gIntersections>>
    /\ UNCHANGED <<renderVars, traceVars>>

NextGeom ==
    \/ TestPrimitives
    \/ ResolveNearest

SpecGeom == InitGeom /\ [][NextGeom]_vars

\* ------------------------------------------------------------------------
\* Properties of render
\* ------------------------------------------------------------------------
AllRows == 0 .. (rows - 1)
RunningRows == {task[w].row : w \in {v \in Threads : task[v].pc # "idle"}}
CellsOfRow(row) == (row * cols) .. (row * cols + cols - 1)

\* C1: when render has processed all rows, the completed-rows counter equals
\* rows and the last progress value corresponds to 100%: no increment is lost
\* under any interleaving of the row tasks.
C1_NoLostIncrement ==
    RenderDone => (completed_rows = rows /\ progress = rows)

\* C2: each row is processed by exactly one task, a task writes only the cells
\* row*cols .. row*cols+cols-1 of its own row, no cell is written by two tasks
\* or twice, and when render finishes every cell has been written exactly once.
C2_RowOwnership ==
    /\ pending \cup RunningRows \cup finished = AllRows
    /\ pending \cap RunningRows = {}
    /\ pending \cap finished = {}
    /\ RunningRows \cap finished = {}
    /\ \A v, w \in Threads :
          (v # w /\ task[v].pc # "idle" /\ task[w].pc # "idle") => task[v].row # task[w].row
    /\ \A cell \in DOMAIN image :
          /\ Cardinality(image[cell]) <= 1
          /\ \A write \in image[cell] : cell \in CellsOfRow(write[1])
    /\ \A row \in finished : \A cell \in CellsOfRow(row) : Cardinality(image[cell]) = 1
    /\ RenderDone =>
          /\ finished = AllRows
          /\ DOMAIN image = 0 .. (rows * cols - 1)
          /\ \A cell \in DOMAIN image : Cardinality(image[cell]) = 1

\* C2 witness: a finished render of several rows and columns on several threads
C2_Witness ==
    /\ RenderDone
    /\ rows >= 2
    /\ cols >= 2
    /\ numThreads >= 2
    /\ \A cell \in DOMAIN image : Cardinality(image[cell]) = 1

\* C3 (as stated): no generator state that one row task reads or advances is
\* read or advanced by a different row task.
C3_TaskPrivateRng ==
    \A g \in DOMAIN rngUsers : \A u1, u2 \in rngUsers[g] : u1[2] = u2[2]

\* C3 (amended): the random source is private to the worker thread: generator
\* state is never read or advanced by row tasks running on different threads,
\* so row tasks that run at the same time never share it; the row tasks a
\* thread runs one after another draw from that thread's one generator.
C3_ThreadPrivateRng ==
    /\ \A g \in DOMAIN rngUsers : \A u \in rngUsers[g] : u[1] = g
    /\ \A v, w \in Threads :
          (v # w /\ task[v].pc # "idle" /\ task[w].pc # "idle") => task[v].rng # task[w].rng

\* C3 witness: two threads have drawn, and one generator has served two row tasks
C3_Witness ==
    /\ \E g \in DOMAIN rngUsers : \E u1, u2 \in rngUsers[g] : u1[2] # u2[2]
    /\ \E g1, g2 \in DOMAIN rngUsers : g1 # g2 /\ rngUsers[g1] # {} /\ rngUsers[g2] # {}

\* C4: the row_fraction and col_fraction passed to camera.prime_ray both lie
\* in [0, 1], for every pixel, sample and jitter value.
C4_FractionsInUnitInterval ==
    primeArgs.calls > 0 =>
        /\ 0 <= primeArgs.row_num /\ primeArgs.row_num <= primeArgs.row_den
        /\ 0 <= primeArgs.col_num /\ primeArgs.col_num <= primeArgs.col_den

\* C7: the value of the completed-rows counter never decreases during a render.
C7_CounterNeverDecreases ==
    [][completed_rows' >= completed_rows]_vars

\* ------------------------------------------------------------------------
\* Properties of first_intersection and Sphere::intersects
\* ------------------------------------------------------------------------
Hits == {i \in 1 .. Len(gIntersections) : gIntersections[i].some}

\* C5: first_intersection returns the Some result of minimum distance with the
\* primitive that produced it, the first in order among equals, and returns
\* None if and only if every per-primitive result is None.
C5_NearestHit ==
    gPc = "resolved" =>
        /\ gResult.status \in {"none", "some"}
        /\ gResult.status = "none" <=> Hits = {}
        /\ gResult.status = "some" =>
              LET k == gResult.intersectable
              IN  /\ k \in Hits
                  /\ gResult.intersection = gIntersections[k]
                  /\ \A j \in Hits :
                        ~Less(gIntersections[j].distance, gIntersections[k].distance)
                  /\ \A j \in Hits :
                        j < k => Less(gIntersections[k].distance, gIntersections[j].distance)

\* the roots among t0, t1 that are not below 0.01
ValidRoots(t0, t1) == {t \in {t0, t1} : ~Less(t, EPS)}

\* C9: intersects returns None exactly when the discriminant is negative or
\* both roots t0 <= t1 are below 0.01; otherwise the hit point is ray.at(t)
\* for the smallest root t that is >= 0.01.
C9_SmallestValidRoot ==
    gPc # "start" =>
        \A i \in 1 .. Len(gWorld) :
            LET sphere == gWorld[i]
                result == gIntersections[i]
                t0 == Root0(sphere, gRay)
                t1 == Root1(sphere, gRay)
                valid == ValidRoots(t0, t1)
            IN  IF Discriminant(sphere, gRay) < 0
                  THEN ~result.some
                  ELSE /\ ~Less(t1, t0)
                       /\ result.some <=> valid # {}
                       /\ result.some =>
                             \E t \in valid :
                                /\ \A u \in valid : ~Less(u, t)
                                /\ result.point = At(gRay, t)

\* C9 witness: hits at the near root, and a hit at the far root whose near root
\* is non-negative and below 0.01
C9_Witness ==
    /\ gPc = "tested"
    /\ \E i \in 1 .. Len(gWorld) :
          /\ gIntersections[i].some
          /\ Discriminant(gWorld[i], gRay) > 0
          /\ gIntersections[i].point = At(gRay, Root0(gWorld[i], gRay))
    /\ \E i \in 1 .. Len(gWorld) :
          /\ gIntersections[i].some
          /\ Root0(gWorld[i], gRay).num >= 0
          /\ Less(Root0(gWorld[i], gRay), EPS)
          /\ gIntersections[i].point = At(gRay, Root1(gWorld[i], gRay))

\* |origin - center| < radius
OriginInside(sphere, ray) == QuadC(sphere, ray) < 0

\* C10 (as stated): inside is true if and only if the origin of the ray lies
\* inside the sphere, and local_normal is the surface normal negated exactly
\* when inside is true.
C10_InsideIffOriginInside ==
    gPc # "start" =>
        \A i \in 1 .. Len(gWorld) :
            gIntersections[i].some =>
                /\ gIntersections[i].inside <=> OriginInside(gWorld[i], gRay)
                /\ gIntersections[i].local_normal =
                      LocalNormal(gIntersections[i].inside,
                                  SurfaceNormal(gWorld[i], gIntersections[i].point))

\* C10 (amended): inside is true if and only if the ray leaves the sphere at the
\* returned hit point (its direction has a positive dot product with the surface
\* normal there), which is the far root taken because the near root is below
\* 0.01; that is so for every origin inside the sphere; local_normal is the
\* surface normal negated exactly when inside is true, and never points along
\* the ray.
C10_InsideIffLeaving ==
    gPc # "start" =>
        \A i \in 1 .. Len(gWorld) :
            LET sphere == gWorld[i]
                hit == gIntersections[i]
                normal == VSub(hit.point.num, VScale(hit.point.den, sphere.origin))
            IN  hit.some =>
                  /\ hit.inside <=> dot(gRay.direction, normal) > 0
                  /\ hit.inside <=> (Less(Root0(sphere, gRay), EPS)
                                        /\ Discriminant(sphere, gRay) > 0)
                  /\ OriginInside(sphere, gRay) => hit.inside
                  /\ hit.local_normal.den > 0
                  /\ hit.local_normal.num = IF hit.inside THEN VNeg(normal) ELSE normal
                  /\ dot(gRay.direction, hit.local_normal.num) <= 0

\* C10 witness: a hit with inside true for an origin that is not inside the
\* sphere, a hit from an origin inside, and a hit from outside with inside false
C10_Witness ==
    /\ gPc = "tested"
    /\ \E i \in 1 .. Len(gWorld) :
          /\ gIntersections[i].some
          /\ gIntersections[i].inside
          /\ ~OriginInside(gWorld[i], gRay)
    /\ \E i \in 1 .. Len(gWorld) :
          /\ gIntersections[i].some
          /\ (OriginInside(gWorld[i], gRay) \/ ~gIntersections[i].inside)

C8_Frames ==
    /\ Len(trStack) <= trDepth0 + 1
    /\ trDepth0 <= TraceDepth
    /\ \A i \in 1 .. Len(trStack) :
          /\ trStack[i].depth = trDepth0 - (i - 1)
          /\ trStack[i].depth >= 0
          /\ trStack[i].calls <= 1
          /\ i < Len(trStack) => trStack[i].calls = 1
          /\ trStack[i].depth = 0 => (~trStack[i].tested /\ trStack[i].calls = 0)
    /\ (trPc = "return" /\ Len(trStack) > 0 /\ Top.depth = 0) => trRet = Black

Terminated == trPc \in {"done", "panic"}

\* a variant of the recursion: above depth0 + 1 while calls are being made,
\* the number of active calls while they return, 0 at the end
TraceMeasure ==
    IF Terminated THEN 0
    ELSE IF trPc = "call" THEN trDepth0 + 2 + Top.depth
    ELSE Len(trStack)

\* a call that has not ended is at a statement that can run: the return of a
\* value, the depth test, or the resolution of the intersections of its ray
TraceCanStep ==
    /\ Len(trStack) >= 1
    /\ \/ trPc = "return"
       \/ trPc = "call" /\ DepthExhausted(Top.depth)
       \/ /\ trPc = "call"
          /\ \E ins \in [1 .. Len(trWorld) -> HitResults] :
                find_intersections(ins, trWorld).status \in {"panic", "none", "some"}

\* C8: every recursive call has depth exactly one less than its caller's,
\* starting from the budget (50); a call with depth 0 returns black without
\* testing intersections or recursing (depth never underflows); each call makes
\* at most one recursive call; there are never more than 50 nested bounces, and
\* every trace call terminates: a call that has not ended can take a step, and
\* every step decreases a natural number that starts at no more than 102.
C8_DepthBounded ==
    /\ []C8_Frames
    /\ [](~Terminated => (TraceCanStep /\ TraceMeasure <= 2 * TraceDepth + 2))
    /\ [][TraceMeasure' < TraceMeasure]_vars

\* C8 witness: started at depth 50, the 50th nested bounce has reached depth 0
\* and returned black
C8_Witness ==
    /\ trDepth0 = TraceDepth
    /\ Len(trStack) = TraceDepth + 1
    /\ Top.depth = 0
    /\ trPc = "return"
    /\ trRet = Black

====
